---- MODULE Spec2Model ----
(***************************************************************************)
(* The bounded semantic context store of terminal-gpt (src/src/context.ts) *)
(* as a state machine: createVectorStore's closure state (items,           *)
(* currentTokens, the HNSW index), and the three exported operations       *)
(* addContext, getContext and clearContext.                                *)
(*                                                                         *)
(* A text is a sequence of characters.  The tiktoken encoder maps each     *)
(* character of the model's alphabet to one token id; a text holding the   *)
(* special marker cannot be encoded (encode throws).  The numeric program  *)
(* constants (maxTokens 4096, dimension 1536, 1000 index points, k = 5)    *)
(* are scaled down so that eviction, truncation and index exhaustion all   *)
(* happen within a few insertions.                                         *)
(***************************************************************************)
EXTENDS Integers, Sequences, FiniteSets, TLC

\* ------------------------------------------------------------------ sizes
\* createVectorStore's default maxTokens (4096 in the source).
maxTokens == 2
\* createVectorStore's vector dimension (1536 in the source).
dimension == 2
\* index.initIndex(1000): the index's maximum number of points.
MaxElements == 3
\* getRelevantContext's default k (5 in the source).
DefaultK == 2
\* textToVector's normalisation divisor.
Normalization == 100
\* Number of distinct characters input texts are written with.
NumChars == 2

\* ------------------------------------------------------------ input texts
Alphabet == <<"a", "b", "c", "d">>
Chars == {Alphabet[i] : i \in 1..NumChars}
\* The marker of a text the encoder rejects.
Special == "!"
Roles == {"user", "assistant"}

\* A text of maxTokens + 1 tokens: alone it exceeds the budget, and it is
\* longer than the vector dimension.
Oversize == [i \in 1..(maxTokens + 1) |-> Alphabet[1]]
BadText == <<Special>>
GoodTexts == {<<>>} \cup {<<c>> : c \in Chars} \cup {Oversize}
Texts == GoodTexts \cup {BadText}
Turns == [role : Roles, content : Texts]

\* ------------------------------------------------------------- tokenizer
\* encoder.encode(text) throws on this text.
EncodeFails(text) == \E i \in 1..Len(text) : text[i] = Special

\* The token id of a character: its rank in the vocabulary.
TokenOf(c) == CHOOSE i \in 1..Len(Alphabet) : Alphabet[i] = c

\* encoder.encode(text): the token ids of a text that can be encoded.
Encode(text) == [i \in 1..Len(text) |-> TokenOf(text[i])]

\* ------------------------------------------------------------ vectorizer
Zero == [num |-> 0, den |-> 1]

Min(a, b) == IF a < b THEN a ELSE b

\* A loop bound that is one short: the last token is never written.
textToVectorOneShort(text) ==
  LET encoded == Encode(text)
  IN  [i \in 1..dimension |->
         IF i < Len(encoded) THEN [num |-> encoded[i], den |-> Normalization]
                             ELSE Zero]

\* textToVector(text): a zero-filled array of length dimension whose first
\* min(len, dimension) entries are encoded[i] / 100 (kept as fractions).
textToVector(text) ==
  LET encoded == Encode(text)
  IN  [i \in 1..dimension |->
         IF i <= Len(encoded) THEN [num |-> encoded[i], den |-> Normalization]
                              ELSE Zero]

\* ------------------------------------------------------- the cosine index
\* A vector entry in units of 1/Normalization (exact: den divides it).
Scaled(x) == (x.num * Normalization) \div x.den

RECURSIVE DotFrom(_, _, _)
DotFrom(u, v, i) ==
  IF i > Len(u) THEN 0 ELSE Scaled(u[i]) * Scaled(v[i]) + DotFrom(u, v, i + 1)

Dot(u, v) == DotFrom(u, v, 1)

\* The squared cosine of the angle between q and v as a fraction; 0 when
\* either vector is zero (the library leaves a zero vector unnormalised, so
\* the inner product is 0).  All entries are >= 0, so the cosine is >= 0 and
\* comparing squares compares cosines.
CosSq(q, v) ==
  IF Dot(q, q) = 0 \/ Dot(v, v) = 0
  THEN [num |-> 0, den |-> 1]
  ELSE [num |-> Dot(q, v) * Dot(q, v), den |-> Dot(q, q) * Dot(v, v)]

\* Fraction x is greater than fraction y (denominators are positive).
Greater(x, y) == x.num * y.den > y.num * x.den

\* index.searchKnn(q, k).neighbors: k distinct labels of idx in order of
\* non-decreasing cosine distance 1 - cos to q; which of several
\* equidistant points comes first, or is cut off, is up to the index.
searchKnn(idx, q, k) ==
  LET cos == [l \in DOMAIN idx |-> CosSq(q, idx[l])]
  IN  { s \in [1..k -> DOMAIN idx] :
          /\ \A i, j \in 1..k : i < j =>
                s[i] # s[j] /\ ~Greater(cos[s[j]], cos[s[i]])
          /\ \A l \in DOMAIN idx :
                (\A i \in 1..k : s[i] # l) => ~Greater(cos[l], cos[s[k]]) }

\* ------------------------------------------------------------------ state
VARIABLES
  items,          \* the live ContextItems, oldest first
  currentTokens,  \* the token counter
  index,          \* the HNSW index: label -> vector
  insertedUnder,  \* history: label -> the item whose vector the label holds
  lastCall,       \* what the last exported call did and returned
  driver          \* the caller of the store: its position and its locals

vars == <<items, currentTokens, index, insertedUnder, lastCall, driver>>

NoId == -1

EmptyMap == [l \in {} |-> <<>>]

\* The substitute getRelevantContext returns for an id with no item.
Placeholder == [role |-> "system", content |-> <<"Context item not found">>]

Idle ==
  [op |-> "none", arg |-> <<>>, neighbors |-> <<>>, result |-> <<>>,
   dup |-> FALSE, error |-> "none", thrown |-> FALSE,
   id |-> NoId, committed |-> FALSE, evicted |-> 0]

\* A caller that makes any exported call with any argument at any time.
AnyCaller == [pc |-> "api"]

\* createVectorStore(): empty items, zero tokens, an initialised empty index.
Init ==
  /\ items = <<>>
  /\ currentTokens = 0
  /\ index = EmptyMap
  /\ insertedUnder = EmptyMap
  /\ lastCall = Idle
  /\ driver = AnyCaller

\* ---------------------------------------------------- getRelevantContext
\* items[id] || placeholder, for the 0-based position id of a JS array.
Resolve(its, id) == IF id + 1 <= Len(its) THEN its[id + 1] ELSE Placeholder

NoAnswer(err) ==
  [neighbors |-> <<>>, result |-> <<>>, error |-> err]

\* getRelevantContext without its items.length === 0 test.
getRelevantContextUnguarded(its, idx, query, k) ==
  IF EncodeFails(query) THEN {NoAnswer("TokenizationError")}
  ELSE { [neighbors |-> s,
          result    |-> [i \in 1..Len(s) |-> Resolve(its, s[i])],
          error     |-> "none"] :
         s \in searchKnn(idx, textToVector(query), Min(k, Len(its))) }

\* getRelevantContext(query, k): the possible outcomes, one per order the
\* index may return.  An empty store answers [] before encoding anything; a
\* query that cannot be encoded is caught and answered with [].
getRelevantContext(its, idx, query, k) ==
  IF Len(its) = 0 THEN {NoAnswer("none")}
  ELSE IF EncodeFails(query) THEN {NoAnswer("TokenizationError")}
  ELSE { [neighbors |-> s,
          result    |-> [i \in 1..Len(s) |-> Resolve(its, s[i])],
          error     |-> "none"] :
         s \in searchKnn(idx, textToVector(query), Min(k, Len(its))) }

\* ----------------------------------------------------------------- addItem
tokenCount(text) == Len(Encode(text))

\* A loop condition that forgets the size of the item being added.
MustEvictIgnoringNew(its, cur, tc) == cur > maxTokens /\ Len(its) > 0

\* A loop condition that also evicts when the new item fits exactly.
MustEvictAtLimit(its, cur, tc) == cur + tc >= maxTokens /\ Len(its) > 0

\* The eviction loop's condition.
MustEvict(its, cur, tc) == cur + tc > maxTokens /\ Len(its) > 0

\* items.pop() in place of items.shift(): the newest item goes.
ShiftNewest(its) == SubSeq(its, 1, Len(its) - 1)

\* items.shift(): what is left of the array.
Shift(its) == Tail(its)

\* An eviction that forgets to release the evicted item's tokens.
ReleaseNothing(cur, removedItem) == cur

\* currentTokens after removedItem has been shifted out.
Release(cur, removedItem) == cur - tokenCount(removedItem.content)

\* The while loop of addItem: shift the oldest item out and release its
\* tokens until the new item fits or nothing is left.
RECURSIVE Evict(_, _, _, _)
Evict(its, cur, tc, n) ==
  IF MustEvict(its, cur, tc)
  THEN Evict(Shift(its), Release(cur, Head(its)), tc, n + 1)
  ELSE [items |-> its, currentTokens |-> cur, evicted |-> n]

\* const id = items.length
NewId(its) == Len(its)

\* index.addPoint(vector, id) throws: the label is new and the index
\* already holds its maximum number of points.  (An existing label is
\* overwritten with the new vector instead.)
IndexFull(idx, id) == id \notin DOMAIN idx /\ Cardinality(DOMAIN idx) >= MaxElements

addPoint(idx, vector, id) ==
  [l \in DOMAIN idx \cup {id} |-> IF l = id THEN vector ELSE idx[l]]

\* items.push(item) placed before index.addPoint: the item stays in the
\* live sequence although the index rejected it.
AbortedAfterPush(e, idx, own, item) ==
  [items |-> Append(e.items, item), currentTokens |-> e.currentTokens,
   index |-> idx, insertedUnder |-> own]

\* The store addItem leaves when addPoint throws: the catch block only
\* logs, so whatever the loop evicted stays evicted and nothing is pushed.
Aborted(e, idx, own, item) ==
  [items |-> e.items, currentTokens |-> e.currentTokens, index |-> idx,
   insertedUnder |-> own]

\* A catch block that throws the live items away.
RejectedAndEmptied(its, cur, idx, own) ==
  [items |-> <<>>, currentTokens |-> 0, index |-> idx, insertedUnder |-> own]

\* The store addItem leaves when textToVector throws: the conversion is
\* the first statement after the input test, so nothing has been touched.
Rejected(its, cur, idx, own) ==
  [items |-> its, currentTokens |-> cur, index |-> idx, insertedUnder |-> own]

\* addItem(item): the store it leaves and what happened inside.  Every
\* exception is caught and logged, none reaches the caller.
addItem(its, cur, idx, own, item) ==
  IF EncodeFails(item.content)
  THEN Rejected(its, cur, idx, own) @@
       [error |-> "TokenizationError", id |-> NoId, committed |-> FALSE,
        evicted |-> 0]
  ELSE
    LET vector == textToVector(item.content)
        tc     == tokenCount(item.content)
        e      == Evict(its, cur, tc, 0)
        id     == NewId(e.items)
    IN  IF IndexFull(idx, id)
        THEN Aborted(e, idx, own, item) @@
             [error |-> "CapacityExceeded", id |-> id, committed |-> FALSE,
              evicted |-> e.evicted]
        ELSE [items |-> Append(e.items, item),
              currentTokens |-> e.currentTokens + tc,
              index |-> addPoint(idx, vector, id),
              insertedUnder |-> addPoint(own, item, id),
              error |-> "none", id |-> id, committed |-> TRUE,
              evicted |-> e.evicted]

\* -------------------------------------------------------------- operations
IsDuplicate(existingItems, item) ==
  \E i \in 1..Len(existingItems) :
    /\ existingItems[i].role = item.role
    /\ existingItems[i].content = item.content

\* addContext(item): query for item.content, skip the insertion when an
\* identical item comes back, otherwise addItem.  The possible outcomes:
\* the store the call leaves and what the call did.
addContext(its, cur, idx, own, item) ==
  { LET r    == addItem(its, cur, idx, own, item)
        seen == [op |-> "addContext", arg |-> item, neighbors |-> q.neighbors,
                 result |-> q.result, thrown |-> FALSE]
    IN  IF IsDuplicate(q.result, item)
        THEN [items |-> its, currentTokens |-> cur, index |-> idx,
              insertedUnder |-> own,
              call |-> seen @@ [dup |-> TRUE, error |-> q.error, id |-> NoId,
                                committed |-> FALSE, evicted |-> 0]]
        ELSE [items |-> r.items, currentTokens |-> r.currentTokens,
              index |-> r.index, insertedUnder |-> r.insertedUnder,
              call |-> seen @@ [dup |-> FALSE, error |-> r.error, id |-> r.id,
                                committed |-> r.committed,
                                evicted |-> r.evicted]] :
    q \in getRelevantContext(its, idx, item.content, DefaultK) }

AddContext(item) ==
  /\ lastCall = Idle
  /\ \E o \in addContext(items, currentTokens, index, insertedUnder, item) :
       /\ items' = o.items
       /\ currentTokens' = o.currentTokens
       /\ index' = o.index
       /\ insertedUnder' = o.insertedUnder
       /\ lastCall' = o.call

\* A query that takes the items it returns out of the store's accounting:
\* it releases the tokens of the oldest item and removes it.
GetContextConsuming(query) ==
  /\ lastCall = Idle
  /\ \E q \in getRelevantContext(items, index, query, DefaultK) :
    /\ items' = IF Len(q.result) > 0 THEN Tail(items) ELSE items
    /\ currentTokens' = IF Len(q.result) > 0
                          THEN currentTokens - tokenCount(Head(items).content)
                          ELSE currentTokens
    /\ UNCHANGED <<index, insertedUnder>>
    /\ lastCall' =
         [op |-> "getContext", arg |-> query, neighbors |-> q.neighbors,
          result |-> q.result, dup |-> FALSE,
          error |-> q.error, thrown |-> FALSE, id |-> NoId,
          committed |-> FALSE, evicted |-> 0]

\* getContext(query): getRelevantContext with the default k.
GetContext(query) ==
  /\ lastCall = Idle
  /\ \E q \in getRelevantContext(items, index, query, DefaultK) :
    /\ UNCHANGED <<items, currentTokens, index, insertedUnder>>
    /\ lastCall' =
         [op |-> "getContext", arg |-> query, neighbors |-> q.neighbors,
          result |-> q.result, dup |-> FALSE,
          error |-> q.error, thrown |-> FALSE, id |-> NoId,
          committed |-> FALSE, evicted |-> 0]

\* A reset that zeroes the counter of the existing store instead of
\* building a new one.
ClearContextCounterOnly ==
  /\ lastCall = Idle
  /\ currentTokens' = 0
  /\ UNCHANGED <<items, index, insertedUnder>>
  /\ lastCall' = [Idle EXCEPT !.op = "clearContext", !.evicted = Len(items)]

\* clearContext(): vectorStore = createVectorStore().  All the items of the
\* old store go with it.
ClearContext ==
  /\ lastCall = Idle
  /\ items' = <<>>
  /\ currentTokens' = 0
  /\ index' = EmptyMap
  /\ insertedUnder' = EmptyMap
  /\ lastCall' = [Idle EXCEPT !.op = "clearContext", !.evicted = Len(items)]

\* The exported function has returned: its caller takes the result and
\* goes on to its next call.
Return ==
  /\ lastCall # Idle
  /\ lastCall' = Idle
  /\ UNCHANGED <<items, currentTokens, index, insertedUnder>>

\* The calls of a caller that may make any of them.
CallAddContext == \E item \in Turns : AddContext(item) /\ UNCHANGED driver
CallGetContext == \E query \in Texts : GetContext(query) /\ UNCHANGED driver
CallClearContext == ClearContext /\ UNCHANGED driver
CallReturn == Return /\ UNCHANGED driver

Next ==
  \/ CallAddContext
  \/ CallGetContext
  \/ CallClearContext
  \/ CallReturn

Spec == Init /\ [][Next]_vars

\* ------------------------------------------------- a scripted insertion run
\* The items whose token count is half the budget.
HalfTurns ==
  {t \in Turns : ~EncodeFails(t.content) /\ 2 * tokenCount(t.content) = maxTokens}

\* Three distinct such items T1, T2, T3.
Scripts ==
  {sc \in [1..3 -> HalfTurns] : \A i, j \in 1..3 : i # j => sc[i] # sc[j]}

FifoInit ==
  /\ items = <<>>
  /\ currentTokens = 0
  /\ index = EmptyMap
  /\ insertedUnder = EmptyMap
  /\ lastCall = Idle
  /\ driver \in {[pc |-> "script", script |-> sc, done |-> 0] : sc \in Scripts}

\* The caller inserts the next item of its script.
FifoAdd ==
  /\ driver.done < Len(driver.script)
  /\ AddContext(driver.script[driver.done + 1])
  /\ driver' = [driver EXCEPT !.done = @ + 1]

FifoReturn == Return /\ UNCHANGED driver

FifoNext == FifoAdd \/ FifoReturn

SpecFifo == FifoInit /\ [][FifoNext]_vars

\* ------------------------------------------------------------ the chat loop
\* prompt() of src/src/index.ts with OpenAIEngine of src/src/engine/openAi.ts
\* as the engine behind promptResponse.  What findPlugin, determinePlugins,
\* executePlugin and the model answer, and the hasContext argument the
\* engine is called with, are inputs.  events is history: what the current
\* chat turn has done so far.
Keywords == {"none", "known", "unknown"}

AtPrompt(apiKey) ==
  [pc |-> "prompt", apiKey |-> apiKey, userInput |-> <<>>, keyword |-> "none",
   hasContext |-> FALSE, reply |-> <<>>, failed |-> FALSE, events |-> <<>>]

\* The module-level createVectorStore() and the credentials of the session.
ChatInit ==
  /\ items = <<>>
  /\ currentTokens = 0
  /\ index = EmptyMap
  /\ insertedUnder = EmptyMap
  /\ lastCall = Idle
  /\ driver \in {AtPrompt(apiKey) : apiKey \in BOOLEAN}

StoreUnchanged == UNCHANGED <<items, currentTokens, index, insertedUnder>>

Happened(d, event) == [d EXCEPT !.events = Append(@, event)]

\* A handler that gives up after an error instead of prompting again.
CaughtAndExit(d) == [Happened(d, "error") EXCEPT !.pc = "exit", !.failed = TRUE]

\* catch (error) { console.error(...) } followed by prompt(): the error is
\* logged and the loop asks for the next input.
Caught(d) == [Happened(d, "error") EXCEPT !.pc = "prompt", !.failed = TRUE]

\* The turn is over: prompt() is called again.
Prompting(d) == [d EXCEPT !.pc = "prompt"]

\* const data = await multiline(): the user's text arrives.  Without an API
\* key the loop only logs; a text naming a plugin goes to the plugin;
\* any other text goes to determinePlugins.
ReadInput(text, direct) ==
  /\ driver.pc = "prompt"
  /\ lastCall = Idle
  /\ driver' = [AtPrompt(driver.apiKey) EXCEPT
                  !.userInput = text,
                  !.pc = IF ~driver.apiKey THEN "prompt"
                         ELSE IF direct THEN "plugin" ELSE "determine",
                  !.events = IF driver.apiKey /\ direct THEN <<"direct">> ELSE <<>>]
  /\ StoreUnchanged
  /\ UNCHANGED lastCall

\* await executePlugin(...) resolves.
PluginDone ==
  /\ driver.pc = "plugin"
  /\ driver' = Prompting(Happened(driver, "plugin"))
  /\ StoreUnchanged
  /\ UNCHANGED lastCall

\* await executePlugin(...) rejects.
PluginThrows ==
  /\ driver.pc = "plugin"
  /\ driver' = Caught(driver)
  /\ StoreUnchanged
  /\ UNCHANGED lastCall

\* await determinePlugins(...) resolves with a keyword.
Determine(keyword) ==
  /\ driver.pc = "determine"
  /\ driver' = [Happened(driver, "determine") EXCEPT !.pc = "clear", !.keyword = keyword]
  /\ StoreUnchanged
  /\ UNCHANGED lastCall

\* await determinePlugins(...) rejects.
DetermineThrows ==
  /\ driver.pc = "determine"
  /\ driver' = Caught(driver)
  /\ StoreUnchanged
  /\ UNCHANGED lastCall

\* A loop that goes on to the response without clearing the context.
ClearSkipped ==
  /\ driver.pc = "clear"
  /\ lastCall = Idle
  /\ lastCall' = [Idle EXCEPT !.op = "clearContext"]
  /\ StoreUnchanged
  /\ driver' = [Happened(driver, "clearContext") EXCEPT !.pc = "dispatch"]

\* clearContext(), right after determinePlugins.
Clear ==
  /\ driver.pc = "clear"
  /\ ClearContext
  /\ driver' = [Happened(driver, "clearContext") EXCEPT !.pc = "dispatch"]

\* if (pluginKeyword.trim() !== "none"): the plugin named by the keyword,
\* a log line when there is no such plugin, or promptResponse; the engine
\* is called with some hasContext.
Dispatch(hasContext) ==
  /\ driver.pc = "dispatch"
  /\ Return
  /\ driver' = [driver EXCEPT
                  !.pc = IF driver.keyword = "none" THEN "respond"
                         ELSE IF driver.keyword = "known" THEN "plugin"
                         ELSE "prompt",
                  !.hasContext = hasContext]

\* An engine that stores its answer before it has asked the model.
EngineGetContextThenStore ==
  /\ driver.pc = "respond"
  /\ GetContext(driver.userInput)
  /\ driver' = [Happened(driver, "getContext") EXCEPT !.pc = "reply"]

\* const relevantContext = getContext(prompt); an exception would reach
\* the engine's catch, which rethrows it to the loop.
EngineGetContext ==
  /\ driver.pc = "respond"
  /\ GetContext(driver.userInput)
  /\ driver' = IF lastCall'.thrown THEN Caught(driver)
               ELSE [Happened(driver, "getContext") EXCEPT !.pc = "model"]

\* await openai.chat.completions.create(...) resolves with a message:
\* message.content || "" is the reply.
ModelReturns(reply) ==
  /\ driver.pc = "model"
  /\ Return
  /\ driver' = [Happened(driver, "model") EXCEPT
                  !.pc = IF driver.hasContext THEN "reply" ELSE "answered",
                  !.reply = reply]

\* The model call rejects: the engine's catch rethrows, the loop's catch logs.
ModelThrows ==
  /\ driver.pc = "model"
  /\ Return
  /\ driver' = Caught(driver)

\* if (hasContext) addContext({ role: message.role, content: ... })
EngineAddContext ==
  /\ driver.pc = "reply"
  /\ AddContext([role |-> "assistant", content |-> driver.reply])
  /\ driver' = IF lastCall'.thrown THEN Caught(driver)
               ELSE [Happened(driver, "addContext") EXCEPT !.pc = "answered"]

\* spinner.stop(); return message.content; the loop prompts again.
EngineReturns ==
  /\ driver.pc = "answered"
  /\ lastCall' = Idle
  /\ StoreUnchanged
  /\ driver' = Prompting(driver)

\* The steps the event loop takes by itself once the input is there.
ChatProgress ==
  \/ PluginDone
  \/ PluginThrows
  \/ \E keyword \in Keywords : Determine(keyword)
  \/ DetermineThrows
  \/ Clear
  \/ \E hasContext \in BOOLEAN : Dispatch(hasContext)
  \/ EngineGetContext
  \/ \E reply \in Texts : ModelReturns(reply)
  \/ ModelThrows
  \/ EngineAddContext
  \/ EngineReturns

ChatNext ==
  \/ \E text \in Texts, direct \in BOOLEAN : ReadInput(text, direct)
  \/ ChatProgress

\* Every awaited promise settles and its continuation runs; only the
\* user's next input is not guaranteed to come.
SpecChat == ChatInit /\ [][ChatNext]_vars /\ WF_vars(ChatProgress)

\* ================================================================ claims
Live(its) == {its[j] : j \in 1..Len(its)}

RECURSIVE SumTokens(_)
SumTokens(its) ==
  IF its = <<>> THEN 0 ELSE tokenCount(Head(its).content) + SumTokens(Tail(its))

Copies(its, item) == Cardinality({j \in 1..Len(its) : its[j] = item})

Drop(its, j) == SubSeq(its, j + 1, Len(its))

\* A call is about to be made and its index query returns labels.
Queried == lastCall = Idle /\ lastCall'.neighbors # <<>>

\* C1 (id stability): whenever a query inside getRelevantContext returns
\* labels, each label resolves to the very item that was inserted under
\* it.  Here insertedUnder is the store at the time of the query.
C1_IdStability ==
  [][Queried =>
       \A i \in 1..Len(lastCall'.neighbors) :
         lastCall'.result[i] = insertedUnder[lastCall'.neighbors[i]]]_vars

\* C2 (budget invariant): after every call currentTokens <= maxTokens, or
\* the live sequence holds exactly one item which alone exceeds the budget
\* (and which is the item just inserted, when the call inserted one).
C2_Budget ==
  \/ currentTokens <= maxTokens
  \/ /\ Len(items) = 1
     /\ tokenCount(items[1].content) > maxTokens
     /\ lastCall.committed => items[1] = lastCall.arg

\* C2 witness: an addContext has evicted items and left a single item that
\* alone exceeds the budget.
C2_Witness ==
  /\ lastCall.op = "addContext" /\ lastCall.committed /\ lastCall.evicted > 0
  /\ currentTokens > maxTokens /\ Len(items) = 1

\* C3 (token accounting): in every reachable state currentTokens is the sum
\* of the token counts of the live items.
C3_Accounting == currentTokens = SumTokens(items)

\* C3 witness: an insertion that evicted items has left a store with more
\* than one live item and a non-zero counter.
C3_Witness ==
  /\ lastCall.committed /\ lastCall.evicted > 0
  /\ Len(items) > 1 /\ currentTokens > 0

\* C4 (only live items are returned): every element a query returns is an
\* item live at the time of the query, and there are at most k of them.
C4_OnlyLive ==
  [][lastCall = Idle =>
       /\ Len(lastCall'.result) <= DefaultK
       /\ \A i \in 1..Len(lastCall'.result) : lastCall'.result[i] \in Live(items)]_vars

\* C5 (no duplicates): no two live items have the same role and content.
C5_NoDuplicates ==
  \A i, j \in 1..Len(items) : i # j => items[i] # items[j]

\* C6 (dedup idempotence): right after a successful addContext(T), exactly
\* one live item equals T, and a second addContext(T) changes neither the
\* live sequence nor currentTokens, whatever order the index answers in.
C6_Idempotent ==
  (lastCall.op = "addContext" /\ lastCall.error = "none") =>
    /\ Copies(items, lastCall.arg) = 1
    /\ \A o \in addContext(items, currentTokens, index, insertedUnder, lastCall.arg) :
         o.items = items /\ o.currentTokens = currentTokens

\* C7 (FIFO eviction): every step of a store instance drops items only from
\* the old end of the live sequence and appends only the inserted item at
\* the new end, so the live sequence stays a contiguous suffix of the
\* sequence of committed items.
C7_Fifo ==
  [][lastCall'.op # "clearContext" =>
       \E j \in 0..Len(items) :
         \/ items' = Drop(items, j) /\ ~lastCall'.committed
         \/ items' = Append(Drop(items, j), lastCall'.arg)
            /\ lastCall'.committed /\ j = lastCall'.evicted]_vars

\* C7 witness: an insertion evicted the oldest item and kept a younger one.
C7_Witness ==
  /\ lastCall.committed /\ lastCall.evicted > 0 /\ Len(items) > 1

\* C8 (ids never repeat): the label passed to the index on a committed
\* insertion is greater than every label the index already holds.
C8_FreshIds ==
  [][lastCall'.committed => \A l \in DOMAIN index : lastCall'.id > l]_vars

\* C9 (atomic insertion at the capacity boundary): a call whose index
\* insertion fails for lack of capacity leaves live sequence, counter and
\* index as they were, and every query afterwards still answers with
\* min(k, live) previously committed items.
C9_AtomicAtCapacity ==
  [][lastCall'.error = "CapacityExceeded" =>
       /\ items' = items /\ currentTokens' = currentTokens /\ index' = index
       /\ lastCall'.arg \notin Live(items) => lastCall'.arg \notin Live(items')
       /\ \A query \in GoodTexts :
            \A q \in getRelevantContext(items', index', query, DefaultK) :
              /\ Len(q.result) = Min(DefaultK, Len(items))
              /\ \A i \in 1..Len(q.result) : q.result[i] \in Live(items)]_vars

\* C9 witness: an insertion has failed on a full index.
C9_Witness ==
  /\ lastCall.op = "addContext" /\ lastCall.error = "CapacityExceeded"
  /\ Len(items) = MaxElements

\* C10 (errors are reported): an addContext that fails inside the store
\* throws to its caller.
C10_ErrorsReported ==
  (lastCall.op = "addContext" /\ lastCall.error # "none") => lastCall.thrown

\* C11 (a tokenization failure leaves the store unchanged): an addContext
\* that fails to encode its item leaves live sequence, counter and index
\* as they were; nothing is evicted.
C11_FailureKeepsStore ==
  [][(lastCall'.op = "addContext" /\ lastCall'.error = "TokenizationError") =>
       /\ items' = items /\ currentTokens' = currentTokens /\ index' = index
       /\ lastCall'.evicted = 0 /\ ~lastCall'.committed]_vars

\* C11 witness: an addContext failed to encode its item on a store that
\* holds items.
C11_Witness ==
  /\ lastCall.op = "addContext" /\ lastCall.error = "TokenizationError"
  /\ Len(items) > 0

\* C12 (reset clears history): right after clearContext the live sequence
\* and the index are empty, the counter is 0, the next insertion gets id 0
\* and no query returns anything.
C12_ResetClears ==
  lastCall.op = "clearContext" =>
    /\ items = <<>> /\ currentTokens = 0 /\ index = EmptyMap
    /\ \A item \in Turns :
         \A o \in addContext(items, currentTokens, index, insertedUnder, item) :
           o.call.committed => o.call.id = 0
    /\ \A query \in Texts :
         \A q \in getRelevantContext(items, index, query, DefaultK) :
           q.result = <<>>

\* C12 witness: clearContext has discarded a store that held items.
C12_Witness == lastCall.op = "clearContext" /\ lastCall.evicted > 0

\* C13 (empty-store query): on a store without items and index points every
\* query, encodable or not, with every k, has the empty sequence as its
\* only answer.
C13_EmptyStoreQuery ==
  (items = <<>> /\ index = EmptyMap) =>
    \A query \in Texts : \A k \in 1..(DefaultK + 1) :
      getRelevantContext(items, index, query, k) = {NoAnswer("none")}

\* C13 witness: getContext has answered [] to a non-empty query on a
\* freshly reset store.
C13_Witness ==
  /\ lastCall.op = "getContext" /\ lastCall.arg # <<>> /\ lastCall.result = <<>>
  /\ items = <<>> /\ index = EmptyMap

\* vector is what the claim says of the token ids t: dimension entries,
\* t[i]/100 at the positions t has, 0 at the others.
IsVectorOf(vector, t) ==
  /\ DOMAIN vector = 1..dimension
  /\ \A i \in 1..dimension :
       IF i <= Len(t) THEN vector[i].num * 100 = t[i] * vector[i].den
                      ELSE vector[i].num = 0

\* C17 (vectorizer): textToVector of every text, and every point the index
\* holds, has exactly dimension entries: encoded[i]/100 at the positions
\* i <= min(len, dimension), 0 after them; tokens beyond dimension are
\* dropped.
C17_Vectorizer ==
  /\ \A text \in GoodTexts : IsVectorOf(textToVector(text), Encode(text))
  /\ \A l \in DOMAIN index :
       IsVectorOf(index[l], Encode(insertedUnder[l].content))

\* C17 witness: the index holds the point of a text longer than dimension
\* and the point of a text shorter than dimension.
C17_Witness ==
  /\ \E l \in DOMAIN index : Len(insertedUnder[l].content) > dimension
  /\ \E l \in DOMAIN index :
       /\ Len(insertedUnder[l].content) > 0
       /\ Len(insertedUnder[l].content) < dimension

\* C18 (minimal eviction): an insertion evicts the shortest prefix of the
\* live sequence after which the new item fits (or everything, if it never
\* fits): nothing when it fits at once, and every evicted item was evicted
\* while the item did not fit.  A call that inserts nothing evicts nothing.
C18_MinimalEviction ==
  [][lastCall'.op = "addContext" =>
       LET n  == lastCall'.evicted
           tc == tokenCount(lastCall'.arg.content)
       IN  IF lastCall'.committed
           THEN /\ n \in 0..Len(items)
                /\ \A j \in 0..(n - 1) : SumTokens(Drop(items, j)) + tc > maxTokens
                /\ n < Len(items) => SumTokens(Drop(items, n)) + tc <= maxTokens
                /\ items' = Append(Drop(items, n), lastCall'.arg)
           ELSE n = 0 /\ items' = items]_vars

\* C18 witness: an insertion evicted one item and stopped although older
\* items were left.
C18_Witness ==
  /\ lastCall.op = "addContext" /\ lastCall.committed
  /\ lastCall.evicted = 1 /\ Len(items) > 1

\* C19 (retrievability): when at most k items are live, a query with k
\* returns each of them, and nothing else.
C19_Retrievable ==
  \A k \in 1..(DefaultK + 1) :
    Len(items) <= k =>
      \A query \in GoodTexts :
        \A q \in getRelevantContext(items, index, query, k) :
          /\ Len(q.result) = Len(items)
          /\ \A j \in 1..Len(items) : Copies(q.result, items[j]) = 1

\* C14 (FIFO scenario): three distinct items of maxTokens/2 tokens each
\* inserted into an empty store leave exactly the second and the third
\* live, in this order.
C14_FifoScenario ==
  (driver.pc = "script" /\ driver.done = 3) =>
    items = <<driver.script[2], driver.script[3]>>

\* C14 witness: the third insertion of the script has evicted one item.
C14_Witness ==
  /\ driver.pc = "script" /\ driver.done = 3
  /\ lastCall.committed /\ lastCall.evicted = 1

\* ------------------------------------------------------ chat-loop claims
\* Some event named first comes before position j of the turn's events.
Earlier(events, first, j) == \E i \in 1..(j - 1) : events[i] = first

\* In events, every occurrence of later has an occurrence of first before it.
Precedes(events, first, later) ==
  \A j \in 1..Len(events) : events[j] = later => Earlier(events, first, j)

InChat == driver.pc # "api" /\ driver.pc # "script"

Did(event) == \E i \in 1..Len(driver.events) : driver.events[i] = event

\* Within a model turn getContext comes before the model call and the model
\* call before addContext.
TurnOrdered ==
  /\ Precedes(driver.events, "getContext", "model")
  /\ Precedes(driver.events, "model", "addContext")

\* C15 as stated (chat turn ordering): a model turn queries the store, then
\* calls the model, then feeds the reply back with addContext; an engine
\* call that has answered has added the reply.
C15_ReplyAlwaysFedBack ==
  InChat => /\ TurnOrdered
            /\ driver.pc = "answered" => Did("addContext")

\* C15 (chat turn ordering, amended): a model turn queries the store, then
\* calls the model; the reply is passed to addContext, after the model call
\* has returned, exactly when the engine was called with hasContext set.
C15_TurnOrdering ==
  InChat => /\ TurnOrdered
            /\ driver.pc = "answered" => (Did("addContext") <=> driver.hasContext)
            /\ driver.pc = "reply" => (Did("model") /\ driver.hasContext)

\* C15 witness: an engine call has queried the store, got the model's
\* reply and stored it.
C15_Witness ==
  /\ InChat /\ driver.pc = "answered"
  /\ driver.events = <<"determine", "clearContext", "getContext", "model", "addContext">>
  /\ lastCall.op = "addContext" /\ lastCall.committed

\* C16 (log and continue): no store call of a chat turn throws into the
\* loop; a query that fails inside the store answers the empty history, and
\* after getContext the model is called; after any error of a turn the loop
\* eventually prompts for the next input.
C16_LogAndContinue ==
  /\ [](InChat => ~lastCall.thrown)
  /\ [](InChat => \A query \in Texts :
          \A q \in getRelevantContext(items, index, query, DefaultK) :
            q.error # "none" => q.result = <<>>)
  /\ []((InChat /\ lastCall.op = "getContext") => driver.pc = "model")
  /\ ((InChat /\ (driver.failed \/ lastCall.error # "none")) ~> driver.pc = "prompt")

\* C16 witness: the store failed to take the model's reply and the turn
\* went on to its end.
C16_Witness ==
  /\ InChat /\ driver.pc = "answered"
  /\ lastCall.op = "addContext" /\ lastCall.error = "TokenizationError"

\* C20 (per-turn reset in the chat loop): in a turn that is not a direct
\* plugin command clearContext runs after determinePlugins and before the
\* plugin or model response, and from then until the model has been asked
\* the store holds no item.
C20_PerTurnReset ==
  InChat =>
    /\ ~Did("direct") =>
         /\ Precedes(driver.events, "determine", "clearContext")
         /\ Precedes(driver.events, "clearContext", "getContext")
         /\ Precedes(driver.events, "clearContext", "model")
         /\ Precedes(driver.events, "clearContext", "plugin")
         /\ (driver.pc = "plugin" \/ driver.pc = "respond") => Did("clearContext")
    /\ driver.pc \in {"dispatch", "respond", "model"} =>
         (items = <<>> /\ currentTokens = 0 /\ index = EmptyMap)

\* C20 witness: the clearContext of a turn that goes to the model has
\* discarded the reply an earlier turn had added.
C20_Witness ==
  /\ InChat /\ driver.pc = "dispatch" /\ driver.keyword = "none"
  /\ lastCall.op = "clearContext" /\ lastCall.evicted > 0


\* C21 (queries are read-only): a getContext, whether it returns items,
\* returns [] or fails inside the store, and an addContext that ends at its
\* duplicate query, leave the live sequence, currentTokens and the index
\* contents as they were.
C21_QueriesReadOnly ==
  [][(lastCall'.op = "getContext" \/ (lastCall'.op = "addContext" /\ lastCall'.dup)) =>
       /\ items' = items
       /\ currentTokens' = currentTokens
       /\ index' = index]_vars

\* C21 witness: getContext has returned items of a store that holds items.
C21_Witness ==
  /\ lastCall.op = "getContext" /\ lastCall.error = "none"
  /\ Len(lastCall.result) > 0 /\ Len(items) > 0

====
